---- MODULE Spec2Model ----
(***************************************************************************)
(* Build-a-Platform: a Flask service storing geo-tagged messages           *)
(* (src/app.py, src/models.py) and AI location summaries                   *)
(* (src/blueprints/ai_routes.py).                                          *)
(*                                                                         *)
(* Conventions.  Time is a coarse integer clock `now`; a datetime string   *)
(* is a sequence of one-character strings whose first character is the     *)
(* digit of the clock value.  A Python value that may be None is modelled  *)
(* as a set: {} for None, {v} for the value v.  A request's parameters are *)
(* a function whose DOMAIN is the set of parameters that are present.      *)
(***************************************************************************)
EXTENDS Integers, Sequences, FiniteSets, TLC

\* ---------------------------------------------------------------- bounds
MaxTime == 2          \* the clock runs over 0..MaxTime
MaxMsgs == 2          \* at most this many Message rows are ever inserted
TTL == 1              \* MESSAGE_TTL_MINUTES, in clock ticks
CacheWindow == 1      \* the cache timeout (86400 s), in clock ticks
MaxParams == 2        \* a GET /api/messages request carries at most this many parameters

Workers == {"w1", "w2"}

\* the worker of a run that serves one request at a time
Sequential == {"w1"}

\* ------------------------------------------------------- python helpers
Digits == <<"0", "1", "2", "3", "4", "5", "6", "7", "8", "9">>

IsDigit(c) == \E i \in 1..Len(Digits) : Digits[i] = c

DigitVal(c) == (CHOOSE i \in 1..Len(Digits) : Digits[i] = c) - 1

\* str.replace('Z', '+00:00'): every "Z" becomes the offset token
ReplaceZ(s) == [i \in 1..Len(s) |-> IF s[i] = "Z" THEN "+00:00" ELSE s[i]]

\* datetime.fromisoformat: {t} for a parsed datetime, {} for ValueError.
\* A well-formed datetime is one digit, optionally followed by a UTC offset.
FromIsoFormat(s) ==
    IF Len(s) = 1 /\ IsDigit(s[1]) THEN {DigitVal(s[1])}
    ELSE IF Len(s) = 2 /\ IsDigit(s[1]) /\ s[2] = "+00:00" THEN {DigitVal(s[1])}
    ELSE {}

\* float(x) on a string: {v} for a number, {} for ValueError
PyFloat(s) ==
    IF Len(s) = 1 /\ IsDigit(s[1]) THEN {DigitVal(s[1])} ELSE {}

IsSpace(c) == c = " "

RECURSIVE LStrip(_)
LStrip(s) == IF s # <<>> /\ IsSpace(Head(s)) THEN LStrip(Tail(s)) ELSE s

RECURSIVE RStrip(_)
RStrip(s) ==
    IF s # <<>> /\ IsSpace(s[Len(s)]) THEN RStrip(SubSeq(s, 1, Len(s) - 1)) ELSE s

\* str.strip()
Strip(s) == RStrip(LStrip(s))

\* dt.strftime('%Y-%m-%dT%H:%M:%SZ')
StrfTime(t) == <<Digits[t + 1], "Z">>

\* dict.get(key) / request.args.get(key): {} when the key is absent
ArgGet(args, key) == IF key \in DOMAIN args THEN {args[key]} ELSE {}

\* request.args.get(key, type=float): a failed conversion yields the default None
ArgGetFloat(args, key) ==
    IF key \in DOMAIN args THEN PyFloat(args[key]) ELSE {}

\* all the sequences that list the finite set S once each
Perms(S) ==
    {s \in [1..Cardinality(S) -> S] : \A x \in S : \E i \in DOMAIN s : s[i] = x}

\* ---------------------------------------------------------------- state
VARIABLES
    now,          \* datetime.now(timezone.utc)
    messages,     \* the Message table
    nextMsgId,    \* the next Message.id
    summaries,    \* the Summary table
    nextSumId,    \* the next Summary.id
    cache,        \* the response cache of location_summary: a set of entries
    pc,           \* per worker: where its request stands
    ctx,          \* per worker: the locals of its request in flight
    resp,         \* the response sent by the last step, NoResp when none
    lastPurge     \* the cutoffs of the purges since the last insert into the
                  \* Message table (the last two of them), oldest first

vars ==
    <<now, messages, nextMsgId, summaries, nextSumId, cache, pc, ctx, resp, lastPurge>>

NoResp == [route |-> "none"]

NoCtx == [cutoff |-> 0]

\* Message.to_dict
MessageToDict(m) ==
    [id |-> m.id, message |-> m.message, lat |-> m.lat, lng |-> m.lng,
     posted_at |-> StrfTime(m.posted_at)]

\* Summary.to_dict
SummaryToDict(s) ==
    [id |-> s.id, summary |-> s.summary, lat |-> s.lat, lng |-> s.lng,
     location |-> s.location, posted_at |-> StrfTime(s.posted_at)]

\* query.order_by(posted_at.desc()).all(): any order of the rows that is
\* descending in posted_at (the order of equal timestamps is the database's)
OrderByPostedAtDesc(rows) ==
    {s \in Perms(rows) :
        \A i, j \in DOMAIN s : i < j => s[i].posted_at >= s[j].posted_at}

Init ==
    /\ now = 0
    /\ messages = {}
    /\ nextMsgId = 1
    /\ summaries = {}
    /\ nextSumId = 1
    /\ cache = {}
    /\ pc = [p \in Workers |-> "idle"]
    /\ ctx = [p \in Workers |-> NoCtx]
    /\ resp = NoResp
    /\ lastPurge = <<>>

\* ------------------------------------------------------------ the clock
Tick ==
    /\ now < MaxTime
    /\ now' = now + 1
    /\ resp' = NoResp
    /\ UNCHANGED <<messages, nextMsgId, summaries, nextSumId, cache, pc, ctx, lastPurge>>

\* --------------------------------------------------- GET /api/messages
\* the inputs of GET /api/messages
DateStrs == {<<"1", "Z">>, <<"x">>}
FloatStrs == {<<"1">>}
DateParams == {"start", "end"}
GetParams == DateParams \cup {"lat_min", "lat_max", "lng_min", "lng_max"}
GetArgs ==
    {a \in UNION {[S -> DateStrs \cup FloatStrs] :
                    S \in {T \in SUBSET GetParams : Cardinality(T) <= MaxParams}} :
        \A k \in DOMAIN a :
            IF k \in DateParams THEN a[k] \in DateStrs ELSE a[k] \in FloatStrs}

\* the requests that carry at most one parameter
PlainArgs == {a \in GetArgs : Cardinality(DOMAIN a) <= 1}

\* remove_old_messages: the rows that survive the delete
\* (mutant) the TTL is added instead of subtracted
CutoffAhead(t) == t + TTL

\* cutoff = datetime.now(timezone.utc) - timedelta(minutes=ttl_minutes)
Cutoff(t) == t - TTL

\* (mutant) the delete also takes the rows posted exactly at the cutoff
ExpiredAtCutoff(m, cutoff) == m.posted_at <= cutoff

\* Message.posted_at < cutoff
Expired(m, cutoff) == m.posted_at < cutoff

RemoveOldMessages(rows, cutoff) == {m \in rows : ~Expired(m, cutoff)}

\* the step of GET /api/messages up to the commit of the purge
GetMessagesPurge(p) ==
    /\ pc[p] = "idle"
    /\ messages' = RemoveOldMessages(messages, Cutoff(now))
    /\ pc' = [pc EXCEPT ![p] = "filter"]
    /\ ctx' = [ctx EXCEPT ![p] = [cutoff |-> Cutoff(now)]]
    /\ resp' = NoResp
    /\ lastPurge' = IF lastPurge = <<>> THEN <<Cutoff(now)>>
                    ELSE <<lastPurge[Len(lastPurge)], Cutoff(now)>>
    /\ UNCHANGED <<now, nextMsgId, summaries, nextSumId, cache>>

\* filter_messages, the start bound: "error" | "none" | "bound"
StartFilter(args) ==
    LET start == ArgGet(args, "start") IN
    IF start = {} \/ start = {<<>>} THEN [kind |-> "none"]
    ELSE LET dt == FromIsoFormat(ReplaceZ(args["start"])) IN
         IF dt = {} THEN [kind |-> "error"]
         ELSE [kind |-> "bound", at |-> CHOOSE t \in dt : TRUE]

\* filter_messages, the end bound: the Response built on ValueError is dropped
EndFilter(args) ==
    LET end == ArgGet(args, "end") IN
    IF end = {} \/ end = {<<>>} THEN [kind |-> "none"]
    ELSE LET dt == FromIsoFormat(ReplaceZ(args["end"])) IN
         IF dt = {} THEN [kind |-> "none"]
         ELSE [kind |-> "bound", at |-> CHOOSE t \in dt : TRUE]

\* (mutant) a strict lower bound on lat
LatMinStrict(m, b) == \A x \in b : m.lat > x

\* the four coordinate bounds, each applied only when its parameter is not None
LatMinOk(m, b) == \A x \in b : m.lat >= x
LatMaxOk(m, b) == \A x \in b : m.lat <= x
LngMinOk(m, b) == \A x \in b : m.lng >= x
LngMaxOk(m, b) == \A x \in b : m.lng <= x

\* the rows the chained query.filter calls select
FilterQuery(rows, args) ==
    {m \in rows :
        /\ StartFilter(args).kind = "bound" => m.posted_at >= StartFilter(args).at
        /\ EndFilter(args).kind = "bound" => m.posted_at <= EndFilter(args).at
        /\ LatMinOk(m, ArgGetFloat(args, "lat_min"))
        /\ LatMaxOk(m, ArgGetFloat(args, "lat_max"))
        /\ LngMinOk(m, ArgGetFloat(args, "lng_min"))
        /\ LngMaxOk(m, ArgGetFloat(args, "lng_max"))}

\* filter_messages and the rest of the GET branch of messages()
GetMessagesFilterOf(p, Args) ==
    /\ pc[p] = "filter"
    /\ \E args \in Args :
          IF StartFilter(args).kind = "error"
          THEN resp' = [route |-> "GET /api/messages", args |-> args,
                        cutoff |-> ctx[p].cutoff, status |-> 400,
                        body |-> "Invalid start date format"]
          ELSE \E rows \in OrderByPostedAtDesc(FilterQuery(messages, args)) :
                  resp' = [route |-> "GET /api/messages", args |-> args,
                           cutoff |-> ctx[p].cutoff, status |-> 200,
                           body |-> [i \in DOMAIN rows |-> MessageToDict(rows[i])]]
    /\ pc' = [pc EXCEPT ![p] = "idle"]
    /\ ctx' = [ctx EXCEPT ![p] = NoCtx]
    /\ UNCHANGED <<now, messages, nextMsgId, summaries, nextSumId, cache, lastPurge>>

GetMessagesFilter(p) == GetMessagesFilterOf(p, GetArgs)

\* the same step, for requests that carry at most one parameter
GetMessagesFilterPlain(p) ==
    GetMessagesFilterOf(p, PlainArgs)

\* -------------------------------------------------- POST /api/messages
\* JSON values of the body: a number, a string, or absent
Texts == {<<" ">>, <<" ", "h", " ">>}
OptTexts == {{}} \cup {{x} : x \in Texts}
Num(n) == {[t |-> "num", v |-> n]}
Str(s) == {[t |-> "str", v |-> s]}
OptCoords ==
    {<<{}, Num(1)>>, <<Num(1), {}>>, <<Num(0), Num(2)>>, <<Num(1), Num(1)>>,
     <<Num(2), Num(0)>>, <<Str(<<"x">>), Num(1)>>}

PostKeys == {"message", "lat", "lng"}

\* the JSON object holding the keys whose option is not empty
JsonBody(m, la, ln) ==
    LET opt(k) == IF k = "message" THEN m ELSE IF k = "lat" THEN la ELSE ln IN
    [k \in {x \in PostKeys : opt(x) # {}} |-> CHOOSE v \in opt(k) : TRUE]

PostBodies == {JsonBody(m, c[1], c[2]) : m \in OptTexts, c \in OptCoords}

\* one body that is accepted and one that lacks lat
PlainBodies ==
    {JsonBody({<<" ", "h", " ">>}, Num(1), Num(1)),
     JsonBody({<<" ", "h", " ">>}, {}, Num(1))}

\* float(x) on a JSON value
JsonFloat(j) == IF j.t = "num" THEN {j.v} ELSE PyFloat(j.v)

\* data.get('message', '').strip()
MsgText(data) == IF "message" \in DOMAIN data THEN Strip(data["message"]) ELSE <<>>

\* (mutant) truthiness instead of `is None`: a coordinate of 0 counts as missing
CreateRejectedFalsy(data) ==
    \/ MsgText(data) = <<>>
    \/ ArgGet(data, "lat") = {} \/ ArgGet(data, "lng") = {}
    \/ JsonFloat(data["lat"]) = {0} \/ JsonFloat(data["lng"]) = {0}

\* `not msg or lat is None or lng is None`
CreateRejected(data) ==
    MsgText(data) = <<>> \/ ArgGet(data, "lat") = {} \/ ArgGet(data, "lng") = {}

\* create_message and the POST branch of messages()
PostMessageOf(p, Bodies) ==
    /\ pc[p] = "idle"
    /\ nextMsgId <= MaxMsgs
    /\ \E data \in Bodies :
          IF CreateRejected(data)
          THEN /\ resp' = [route |-> "POST /api/messages", data |-> data,
                           status |-> 400, body |-> "Lat and long inputs are required"]
               /\ UNCHANGED <<messages, nextMsgId, lastPurge>>
          ELSE IF JsonFloat(data["lat"]) = {} \/ JsonFloat(data["lng"]) = {}
          THEN \* float() raises ValueError: an unhandled exception
               /\ resp' = [route |-> "POST /api/messages", data |-> data,
                           status |-> 500, body |-> "Internal Server Error"]
               /\ UNCHANGED <<messages, nextMsgId, lastPurge>>
          ELSE LET m == [id |-> nextMsgId, message |-> MsgText(data),
                         lat |-> CHOOSE x \in JsonFloat(data["lat"]) : TRUE,
                         lng |-> CHOOSE x \in JsonFloat(data["lng"]) : TRUE,
                         posted_at |-> now] IN
               /\ messages' = messages \cup {m}
               /\ nextMsgId' = nextMsgId + 1
               /\ lastPurge' = <<>>
               /\ resp' = [route |-> "POST /api/messages", data |-> data,
                           status |-> 201, body |-> MessageToDict(m)]
    /\ UNCHANGED <<now, summaries, nextSumId, cache, pc, ctx>>

PostMessage(p) == PostMessageOf(p, PostBodies)

\* the same step, for one body that is accepted and one that is rejected
PostMessagePlain(p) == PostMessageOf(p, PlainBodies)

\* ------------------------------------------------- GET /api/summaries
\* get_summaries
GetSummaries(p) ==
    /\ pc[p] = "idle"
    /\ \E rows \in OrderByPostedAtDesc(summaries) :
          resp' = [route |-> "GET /api/summaries", status |-> 200,
                   body |-> [i \in DOMAIN rows |-> SummaryToDict(rows[i])]]
    /\ UNCHANGED <<now, messages, nextMsgId, summaries, nextSumId, cache, pc, ctx,
                   lastPurge>>

\* --------------------------------------------------------------- GET /
\* index
Index(p) ==
    /\ pc[p] = "idle"
    /\ resp' = [route |-> "GET /", status |-> 200, body |-> "index.html"]
    /\ UNCHANGED <<now, messages, nextMsgId, summaries, nextSumId, cache, pc, ctx,
                   lastPurge>>

\* ---------------------------------------- GET /api/ai/location-summary
LsRoute == "GET /api/ai/location-summary"

\* the query strings of the requests
LsArgs ==
    {<<>>,
     [k \in {"lat"} |-> <<"1">>],
     [k \in {"lng"} |-> <<"2">>],
     [k \in {"lat", "lng"} |-> IF k = "lat" THEN <<"1">> ELSE <<"2">>],
     [k \in {"lat", "lng"} |-> IF k = "lat" THEN <<"x">> ELSE <<"2">>]}

\* what the reverse-geocoding service may answer: a transport error, a
\* non-200 status, or a 200 whose JSON may hold a feature list
GeoProps ==
    {[k \in {"country"} |-> "US"],
     [k \in {"state", "country"} |-> IF k = "state" THEN "CA" ELSE "US"],
     [k \in {"state", "country"} |-> "US"]}
GeoResponses ==
    {[kind |-> "exception"], [kind |-> "answer", code |-> 500, features |-> {}],
     [kind |-> "answer", code |-> 200, features |-> {}],
     [kind |-> "answer", code |-> 200, features |-> {<<>>}]}
    \cup {[kind |-> "answer", code |-> 200, features |-> {<<pr>>}] : pr \in GeoProps}

\* what the text-generation service may answer
GenResponses == {[ok |-> FALSE], [ok |-> TRUE, response |-> "text"]}

\* the loop over ("state", "country") that fills place_parts
PlaceParts(props) ==
    LET st == IF "state" \in DOMAIN props THEN <<props["state"]>> ELSE <<>>
        co == IF "country" \in DOMAIN props /\ (st = <<>> \/ st[1] # props["country"])
              THEN <<props["country"]>> ELSE <<>>
    IN st \o co

\* ", ".join(parts)
RECURSIVE Join(_)
Join(parts) ==
    IF Len(parts) <= 1 THEN parts
    ELSE <<Head(parts), ", ">> \o Join(Tail(parts))

\* @cache.cached(timeout=86400, query_string=True): the entry of a key, if live
CacheGet(key) == {e \in cache : e.key = key /\ e.expires >= now}

CacheSet(key, value) ==
    {e \in cache : e.key # key}
        \cup {[key |-> key, value |-> value, expires |-> now + CacheWindow]}

\* (mutant) only responses of status 200 are stored
CacheOnlySuccess(key, value) ==
    IF value.status = 200 THEN CacheSet(key, value) ELSE cache

\* the wrapper stores what the view returns and nothing when it aborts
CacheAfterReturn(key, value) == CacheSet(key, value)

\* the columns declared nullable=False hold a value
NotNullOk(row) == row.summary # {}

\* a response of the route, with what the request did: the stage it ended in,
\* the calls it made to the two services, the answer of the geocoding service
\* and whether a Summary row was written
LsResp(args, stage, value, c, geo, wrote) ==
    [route |-> LsRoute, args |-> args, stage |-> stage, status |-> value.status,
     body |-> value.body, geoCalls |-> c.geoCalls, genCalls |-> c.genCalls,
     geo |-> geo, wrote |-> wrote]

NoCalls == [geoCalls |-> 0, genCalls |-> 0]

NoGeo == [kind |-> "none"]

\* abort(code, text)
Abort(code, text) == [status |-> code, body |-> text]

\* the limiter, the cache lookup and the check of lat and lng
LocationSummaryBegin(p) ==
    /\ pc[p] = "idle"
    /\ \E args \in LsArgs, admitted \in BOOLEAN :
          IF ~admitted
          THEN /\ resp' = LsResp(args, "limiter", Abort(429, "Too Many Requests"),
                                 NoCalls, NoGeo, FALSE)
               /\ UNCHANGED <<pc, ctx>>
          ELSE IF CacheGet(args) # {}
          THEN /\ \E e \in CacheGet(args) :
                     resp' = LsResp(args, "cache", e.value, NoCalls, NoGeo, FALSE)
               /\ UNCHANGED <<pc, ctx>>
          ELSE IF ArgGet(args, "lat") = {} \/ ArgGet(args, "lng") = {}
          THEN /\ resp' = LsResp(args, "validate",
                                 Abort(400, "lat and lng query parameters required"),
                                 NoCalls, NoGeo, FALSE)
               /\ UNCHANGED <<pc, ctx>>
          ELSE /\ pc' = [pc EXCEPT ![p] = "geocode"]
               /\ ctx' = [ctx EXCEPT ![p] = [args |-> args, geoCalls |-> 0,
                                             genCalls |-> 0]]
               /\ resp' = NoResp
    /\ UNCHANGED <<now, messages, nextMsgId, summaries, nextSumId, cache, lastPurge>>

\* (mutant) the two aborts carry each other's status
GeoAbortSwapped(geo) ==
    IF geo.code # 200 THEN {Abort(404, "Geoapify error")}
    ELSE IF geo.features = {} \/ geo.features = {<<>>}
    THEN {Abort(502, "No location data found")}
    ELSE {}

\* the two checks of the geocoding answer: the abort they raise, {} when the
\* answer passes both
GeoAbort(geo) ==
    IF geo.code # 200 THEN {Abort(502, "Geoapify error")}
    ELSE IF geo.features = {} \/ geo.features = {<<>>}
    THEN {Abort(404, "No location data found")}
    ELSE {}

\* requests.get(GEO_API) and the checks of its answer
LocationSummaryGeocode(p) ==
    /\ pc[p] = "geocode"
    /\ \E geo \in GeoResponses :
          LET c == [ctx[p] EXCEPT !.geoCalls = @ + 1] IN
          IF geo.kind = "exception"
          THEN \* requests.get raises: an unhandled exception
               /\ resp' = LsResp(c.args, "geocode", Abort(500, "Internal Server Error"),
                                 c, geo, FALSE)
               /\ pc' = [pc EXCEPT ![p] = "idle"]
               /\ ctx' = [ctx EXCEPT ![p] = NoCtx]
          ELSE IF GeoAbort(geo) # {}
          THEN /\ \E a \in GeoAbort(geo) :
                     resp' = LsResp(c.args, "geocode", a, c, geo, FALSE)
               /\ pc' = [pc EXCEPT ![p] = "idle"]
               /\ ctx' = [ctx EXCEPT ![p] = NoCtx]
          ELSE /\ \E f \in geo.features :
                     ctx' = [ctx EXCEPT ![p] =
                                [args |-> c.args, geoCalls |-> c.geoCalls,
                                 genCalls |-> c.genCalls,
                                 description |-> Join(PlaceParts(f[1]))]]
               /\ pc' = [pc EXCEPT ![p] = "generate"]
               /\ resp' = NoResp
    /\ UNCHANGED <<now, messages, nextMsgId, summaries, nextSumId, cache, lastPurge>>

\* the value the except branch returns: jsonify({...}), 502
ModelError == [status |-> 502, body |-> [error |-> "Model response error"]]

\* requests.post(CF_ENDPOINT) inside try/except
LocationSummaryGenerate(p) ==
    /\ pc[p] = "generate"
    /\ \E gen \in GenResponses :
          LET c == [ctx[p] EXCEPT !.genCalls = @ + 1] IN
          IF ~gen.ok
          THEN /\ resp' = LsResp(c.args, "generate", ModelError, c, NoGeo, FALSE)
               /\ cache' = CacheAfterReturn(c.args, ModelError)
               /\ pc' = [pc EXCEPT ![p] = "idle"]
               /\ ctx' = [ctx EXCEPT ![p] = NoCtx]
          ELSE /\ ctx' = [ctx EXCEPT ![p] =
                             [args |-> c.args, geoCalls |-> c.geoCalls,
                              genCalls |-> c.genCalls, description |-> c.description,
                              generated |-> gen.response]]
               /\ pc' = [pc EXCEPT ![p] = "persist"]
               /\ resp' = NoResp
               /\ UNCHANGED cache
    /\ UNCHANGED <<now, messages, nextMsgId, summaries, nextSumId, lastPurge>>

\* the Summary(...) the handler builds: summary=None
NewSummary(c, lat, lng) ==
    [id |-> nextSumId, summary |-> {}, location |-> c.description,
     lat |-> lat, lng |-> lng, posted_at |-> now]

\* db.session.add / commit inside try/except, and the final jsonify
LocationSummaryPersist(p) ==
    /\ pc[p] = "persist"
    /\ LET c == ctx[p]
           lat == PyFloat(c.args["lat"])
           lng == PyFloat(c.args["lng"])
           failed == Abort(500, "Failed to save location summary")
       IN IF lat = {} \/ lng = {}
          THEN \* float() raises ValueError inside the try
               /\ resp' = LsResp(c.args, "persist", failed, c, NoGeo, FALSE)
               /\ UNCHANGED <<summaries, nextSumId, cache>>
          ELSE LET row == NewSummary(c, CHOOSE x \in lat : TRUE,
                                     CHOOSE x \in lng : TRUE) IN
               IF ~NotNullOk(row)
               THEN \* the commit raises IntegrityError
                    /\ resp' = LsResp(c.args, "persist", failed, c, NoGeo, FALSE)
                    /\ UNCHANGED <<summaries, nextSumId, cache>>
               ELSE LET value ==
                            [status |-> 200,
                             body |-> [id |-> row.id, lat |-> c.args["lat"],
                                       lng |-> c.args["lng"],
                                       description |-> c.description,
                                       summary |-> c.generated,
                                       posted_at |-> row.posted_at]] IN
                    /\ summaries' = summaries \cup {row}
                    /\ nextSumId' = nextSumId + 1
                    /\ resp' = LsResp(c.args, "persist", value, c, NoGeo, TRUE)
                    /\ cache' = CacheAfterReturn(c.args, value)
    /\ pc' = [pc EXCEPT ![p] = "idle"]
    /\ ctx' = [ctx EXCEPT ![p] = NoCtx]
    /\ UNCHANGED <<now, messages, nextMsgId, lastPurge>>

\* ------------------------------------------------------- specifications
\* the message routes, one request after the other
NextMsg ==
    \/ Tick
    \/ \E p \in Sequential : GetMessagesPurge(p)
    \/ \E p \in Sequential : GetMessagesFilter(p)
    \/ \E p \in Sequential : PostMessage(p)

SpecMsg == Init /\ [][NextMsg]_vars

\* the message routes, served by concurrent workers
NextConc ==
    \/ Tick
    \/ \E p \in Workers : GetMessagesPurge(p)
    \/ \E p \in Workers : GetMessagesFilterPlain(p)
    \/ \E p \in Workers : PostMessagePlain(p)

SpecConc == Init /\ [][NextConc]_vars

\* the summary routes, served by concurrent workers
NextAI ==
    \/ Tick
    \/ \E p \in Workers : GetSummaries(p)
    \/ \E p \in Workers : LocationSummaryBegin(p)
    \/ \E p \in Workers : LocationSummaryGeocode(p)
    \/ \E p \in Workers : LocationSummaryGenerate(p)
    \/ \E p \in Workers : LocationSummaryPersist(p)

SpecAI == Init /\ [][NextAI]_vars

\* the five routes, one request after the other
Next ==
    \/ Tick
    \/ \E p \in Sequential : Index(p)
    \/ \E p \in Sequential : GetMessagesPurge(p)
    \/ \E p \in Sequential : GetMessagesFilterPlain(p)
    \/ \E p \in Sequential : PostMessagePlain(p)
    \/ \E p \in Sequential : GetSummaries(p)
    \/ \E p \in Sequential : LocationSummaryBegin(p)
    \/ \E p \in Sequential : LocationSummaryGeocode(p)
    \/ \E p \in Sequential : LocationSummaryGenerate(p)
    \/ \E p \in Sequential : LocationSummaryPersist(p)

Spec == Init /\ [][Next]_vars

\* ------------------------------------------------------------ the claims
GetRoute == "GET /api/messages"
PostRoute == "POST /api/messages"

\* a parameter that is present and is no datetime
Malformed(args, k) ==
    k \in DOMAIN args /\ FromIsoFormat(ReplaceZ(args[k])) = {}

\* C1 (as claimed): a GET /api/messages whose start or end is present and is
\* no ISO-8601 datetime is answered 400 with the plain text naming the
\* parameter, whatever the other parameters are, and returns no list
C1_MalformedDateRejected ==
    resp.route = GetRoute =>
        /\ Malformed(resp.args, "start") =>
              resp.status = 400 /\ resp.body = "Invalid start date format"
        /\ (Malformed(resp.args, "end") /\ ~Malformed(resp.args, "start")) =>
              resp.status = 400 /\ resp.body = "Invalid end date format"

\* what POST /api/messages requires of its body
LacksField(data) ==
    \/ "message" \notin DOMAIN data
    \/ "lat" \notin DOMAIN data
    \/ "lng" \notin DOMAIN data
    \/ \A i \in DOMAIN data["message"] : data["message"][i] = " "

IsNumber(j) == j.t = "num"

WellFormed(args) ==
    \A k \in DOMAIN args :
        /\ Len(args[k]) >= 1 /\ IsDigit(args[k][1])
        /\ IF k \in DateParams
           THEN Len(args[k]) = 1 \/ (Len(args[k]) = 2 /\ args[k][2] = "Z")
           ELSE Len(args[k]) = 1

\* the value of a well-formed parameter
ValueOf(args, k) == DigitVal(args[k][1])

\* the rows that satisfy every bound the request supplies
Satisfying(rows, args) ==
    {m \in rows :
        /\ "start" \in DOMAIN args => m.posted_at >= ValueOf(args, "start")
        /\ "end" \in DOMAIN args => m.posted_at <= ValueOf(args, "end")
        /\ "lat_min" \in DOMAIN args => m.lat >= ValueOf(args, "lat_min")
        /\ "lat_max" \in DOMAIN args => m.lat <= ValueOf(args, "lat_max")
        /\ "lng_min" \in DOMAIN args => m.lng >= ValueOf(args, "lng_min")
        /\ "lng_max" \in DOMAIN args => m.lng <= ValueOf(args, "lng_max")}

\* C5: a GET /api/messages with well-formed parameters returns exactly the
\* stored messages that satisfy every supplied bound (an absent bound
\* constrains nothing), each once, ordered by posted_at descending
C5_FilterExact ==
    (resp.route = GetRoute /\ WellFormed(resp.args)) =>
        /\ resp.status = 200
        /\ Len(resp.body) = Cardinality(Satisfying(messages, resp.args))
        /\ \A m \in Satisfying(messages, resp.args) :
              \E i \in DOMAIN resp.body : resp.body[i] = MessageToDict(m)
        /\ \A i, j \in DOMAIN resp.body :
              i < j => \E m, n \in messages :
                          /\ resp.body[i] = MessageToDict(m)
                          /\ resp.body[j] = MessageToDict(n)
                          /\ m.posted_at >= n.posted_at

\* C5 (witness): a list filtered by lat_min kept a row on the bound,
\* a row below the bound is stored and is not in the list
C5_Witness ==
    /\ resp.route = GetRoute /\ resp.status = 200
    /\ "lat_min" \in DOMAIN resp.args
    /\ \E i \in DOMAIN resp.body : resp.body[i].lat = ValueOf(resp.args, "lat_min")
    /\ \E m \in messages : m.lat < ValueOf(resp.args, "lat_min")

\* the step of worker p is the purge of a GET /api/messages
PurgeStep(p) == pc[p] = "idle" /\ pc'[p] = "filter"

\* C6 (as claimed): a purge that follows a purge with no insert between them
\* leaves the number of messages as it was
C6_PurgeTwiceSameCount ==
    [][\A p \in Workers :
          (PurgeStep(p) /\ lastPurge # <<>>) =>
              Cardinality(messages') = Cardinality(messages)]_vars

\* C6 (amended): a purge that follows a purge with no insert between them
\* deletes exactly the messages posted at or after the first cutoff and
\* before its own; it deletes nothing when no message is in that range, as
\* when both calls compute the same cutoff
C6_PurgeTwiceDeletesAged ==
    [][\A p \in Workers :
          (PurgeStep(p) /\ lastPurge # <<>>) =>
              LET first == lastPurge[Len(lastPurge)]
                  second == ctx'[p].cutoff
              IN /\ second = now - TTL
                 /\ messages' \subseteq messages
                 /\ messages \ messages' =
                       {m \in messages : first <= m.posted_at /\ m.posted_at < second}
                 /\ (second = first) => messages' = messages]_vars

\* C6 (witness): two purges ran with no insert between them, both with the
\* cutoff at which a stored message was posted
C6_Witness ==
    /\ Len(lastPurge) = 2 /\ lastPurge[1] = lastPurge[2]
    /\ \E m \in messages : m.posted_at = lastPurge[2]

\* the step of worker p is the filter read that ends a GET /api/messages
FilterStep(p) == pc[p] = "filter" /\ pc'[p] = "idle"

C9_ConcurrentPurgeAndRead ==
    [][\A p \in Workers :
          /\ PurgeStep(p) =>
                \A m \in messages \ messages' : m.posted_at < ctx'[p].cutoff
          /\ (FilterStep(p) /\ resp'.status = 200) =>
                \A i \in DOMAIN resp'.body :
                    \E m \in messages :
                       /\ resp'.body[i] = MessageToDict(m)
                       /\ m.posted_at >= ctx[p].cutoff]_vars

\* C9 (witness): a GET returned a message that was inserted after its
\* purge, while the other worker stood between its own purge and read
C9_Witness ==
    /\ resp.route = GetRoute /\ resp.status = 200
    /\ \E i \in DOMAIN resp.body : DigitVal(resp.body[i].posted_at[1]) > resp.cutoff + TTL
    /\ \E q \in Workers : pc[q] = "filter"

\* a request of the route that went past the limiter and missed the cache
Handled(r) == r.route = LsRoute /\ r.stage # "limiter" /\ r.stage # "cache"

\* the request carries lat and lng, both numbers
HasCoords(args) ==
    /\ "lat" \in DOMAIN args /\ "lng" \in DOMAIN args
    /\ PyFloat(args["lat"]) # {} /\ PyFloat(args["lng"]) # {}

\* C2 (as claimed): a request with lat and lng whose geocoding and whose
\* generation succeed is answered 200 with id, lat, lng, description, the
\* generated text and posted_at, and exactly one Summary row holding the
\* description and the coordinates has been written
C2_SuccessPersists ==
    (Handled(resp) /\ resp.stage = "persist" /\ HasCoords(resp.args)) =>
        /\ resp.status = 200
        /\ resp.wrote
        /\ \E row \in summaries :
              /\ row.id = resp.body.id
              /\ row.location = resp.body.description
              /\ {row.lat} = PyFloat(resp.args["lat"])
              /\ {row.lng} = PyFloat(resp.args["lng"])

\* the step of worker p starts a request with the query string args: it is
\* answered at once, or it goes on to the geocoding call
BeginStep(p, args) ==
    /\ pc[p] = "idle"
    /\ \/ pc'[p] = "geocode" /\ ctx'[p].args = args
       \/ /\ pc'[p] = "idle" /\ resp'.route = LsRoute /\ resp'.args = args
          /\ (resp'.stage = "cache" \/ resp'.stage = "validate")

\* C3 (as claimed): when a request whose two upstream calls succeeded has been
\* answered and the same request is made again, the first has written
\* exactly one Summary row and the second is answered from the cache with the
\* same response, with no upstream call and no write
C3_SecondServedFromCache ==
    [][\A p \in Workers :
          (/\ Handled(resp) /\ resp.stage = "persist" /\ HasCoords(resp.args)
           /\ BeginStep(p, resp.args)) =>
              /\ resp.wrote
              /\ resp'.route = LsRoute /\ resp'.stage = "cache"
              /\ resp'.status = resp.status /\ resp'.body = resp.body
              /\ resp'.geoCalls = 0 /\ resp'.genCalls = 0
              /\ summaries' = summaries]_vars

\* C7: the handler fails fast in the order validate, geocode, generate,
\* persist, and calls each service at most once: a request without lat or
\* lng ends in 400 before any call; a geocoding answer that is not 200 ends
\* in 502 and one without features in 404, before the generation call; a
\* generation failure ends in the 502 "Model response error"; none of these
\* writes a Summary row, and the write is attempted only after both calls
C7_FailFast ==
    /\ [](\A p \in Workers :
             /\ pc[p] = "geocode" => ctx[p].geoCalls = 0 /\ ctx[p].genCalls = 0
             /\ pc[p] = "generate" => ctx[p].geoCalls = 1 /\ ctx[p].genCalls = 0
             /\ pc[p] = "persist" => ctx[p].geoCalls = 1 /\ ctx[p].genCalls = 1)
    /\ [](Handled(resp) =>
             /\ resp.geoCalls <= 1 /\ resp.genCalls <= 1
             /\ ("lat" \notin DOMAIN resp.args \/ "lng" \notin DOMAIN resp.args) =>
                   /\ resp.stage = "validate" /\ resp.status = 400
             /\ resp.stage = "validate" =>
                   resp.geoCalls = 0 /\ resp.genCalls = 0 /\ ~resp.wrote
             /\ resp.stage = "geocode" =>
                   /\ resp.geoCalls = 1 /\ resp.genCalls = 0 /\ ~resp.wrote
                   /\ (resp.geo.kind = "answer" /\ resp.geo.code # 200) =>
                         resp.status = 502
                   /\ (resp.geo.kind = "answer" /\ resp.geo.code = 200) =>
                         /\ resp.status = 404
                         /\ (resp.geo.features = {} \/ resp.geo.features = {<<>>})
             /\ resp.stage = "generate" =>
                   /\ resp.geoCalls = 1 /\ resp.genCalls = 1 /\ ~resp.wrote
                   /\ resp.status = 502 /\ resp.body.error = "Model response error"
             /\ resp.wrote =>
                   resp.stage = "persist" /\ resp.geoCalls = 1 /\ resp.genCalls = 1)
    /\ [][/\ (Handled(resp') /\ resp'.stage # "persist") => summaries' = summaries
          /\ summaries' # summaries =>
                \E p \in Workers :
                   /\ pc[p] = "persist" /\ pc'[p] = "idle"
                   /\ ctx[p].geoCalls = 1 /\ ctx[p].genCalls = 1]_vars

\* C7 (witness): a request ended at the geocoding stage with a 404, after one
\* geocoding call and no generation call
C7_Witness ==
    /\ Handled(resp) /\ resp.stage = "geocode" /\ resp.status = 404
    /\ resp.geoCalls = 1 /\ resp.genCalls = 0

\* C10: the cache holds what the handler returned and nothing it aborted with.
\* The 502 of a generation failure is stored under the query string for the
\* cache window, and a request that finds a live entry is answered with it
\* and makes no upstream call; an abort (400, 404, the geocoding 502, the
\* persistence 500) stores nothing, so the same request runs the handler again
C10_CacheStoresReturnsOnly ==
    /\ [](\A e \in cache : e.value = ModelError \/ e.value.status = 200)
    /\ []((Handled(resp) /\ resp.stage = "generate") =>
             \E e \in cache :
                /\ e.key = resp.args /\ e.expires = now + CacheWindow
                /\ e.value = ModelError
                /\ e.value = [status |-> resp.status, body |-> resp.body])
    /\ []((resp.route = LsRoute /\ resp.stage = "cache") =>
             /\ resp.geoCalls = 0 /\ resp.genCalls = 0 /\ ~resp.wrote
             /\ \E e \in cache :
                   /\ e.key = resp.args /\ e.expires >= now
                   /\ e.value = [status |-> resp.status, body |-> resp.body])
    /\ [][/\ \A p \in Workers : \A args \in LsArgs :
                (BeginStep(p, args) /\ CacheGet(args) # {}) => resp'.stage = "cache"
          /\ (Handled(resp') /\ (resp'.stage = "validate" \/ resp'.stage = "geocode")) =>
                cache' = cache
          /\ (Handled(resp') /\ resp'.stage = "persist" /\ resp'.status = 500) =>
                cache' = cache]_vars

\* C10 (witness): a request was answered from the cache with the stored 502
\* of a generation failure
C10_Witness ==
    /\ resp.route = LsRoute /\ resp.stage = "cache"
    /\ resp.status = 502 /\ resp.body = ModelError.body

====
